---- MODULE Spec2Model ----
(***************************************************************************)
(* A model of the TFT <-> Klipper bridge.                                  *)
(*                                                                         *)
(* Spec       the Moonraker component of src/tftadapter.py: the serial     *)
(*            connection (SerialConnection), the line dispatcher           *)
(*            (TFTAdapter.process_line), the command queue (queue_task,    *)
(*            _process_queue) and the event loop that runs their callbacks.*)
(* SpecKlippy the same with the klippy events (ready, shutdown,            *)
(*            disconnect) and the print status monitor.                    *)
(* SpecMirror the state mirror of src/main.py (WebSocketHandler            *)
(*            .handle_message / update_latest_values) under arbitrary      *)
(*            pushed messages.                                             *)
(*                                                                         *)
(* Text is modelled at the granularity of words: a line is the sequence of *)
(* its whitespace separated words, the wire carries words and newlines.    *)
(* A reply is a block of MsgLen bytes, byte k of reply number i being      *)
(* <<i, k>>.                                                               *)
(***************************************************************************)
EXTENDS Integers, Sequences, FiniteSets, TLC

\* ------------------------------------------------------------------ bounds
MaxLines == 2
MsgLen == 2
MaxDrops == 1
MaxPush == 1
MaxReady == 1
MaxTicks == 2
MaxCalls == 3
MaxRecv == 2
MaxBridge == 1

None == "None"
NL == "\n"

\* the kinds of periodic report: M155, M154, M27
Kinds == {"temperature", "position", "print_status"}

\* ------------------------------------------------------------- the tables
\* TFTAdapter.direct_gcodes (the keys) and TFTAdapter.standard_gcodes
direct_gcodes ==
    {"G26", "G29", "G30", "M0", "M20", "M21", "M23", "M24", "M25", "M27",
     "M30", "M32", "M33", "M36", "M48", "M82", "M92", "M105", "M108", "M114",
     "M115", "M118", "M120", "M121", "M150", "M154", "M155", "M201", "M203",
     "M206", "M211", "M220", "M221", "M280", "M290", "M420", "M500", "M503",
     "M524", "M701", "M702", "M851", "M999", "T0"}

standard_gcodes == {"G0", "G1", "G28", "G90", "M84", "M104", "M106", "M140"}

RESTART_GCODES == {<<"RESTART">>, <<"FIRMWARE_RESTART">>}

\* the gcodes whose whole tail is one argument (process_line)
FileGcodes == {"M23", "M30", "M32", "M36", "M37"}

\* The lines the TFT sends in this model.
Lines ==
    { <<"G1", "X1">>, <<"M105">>, <<"M220", "S50">>, <<"M112">>, <<"G4">> }

VARIABLES
    \* SerialConnection
    fd, connected, send_busy, send_buffer, partial_input, attempting_connect,
    \* TFTAdapter
    queue, gq_busy, initialized, is_ready, is_shutdown, last_printer_state,
    current_file, temperature_report_task, position_report_task,
    \* the event loop: callbacks registered and not yet run, the backend calls
    \* awaited by _process_queue runs, connect() runs in progress, _do_send
    \* runs asleep after EAGAIN, _monitor_print_status tasks,
    \* _process_klippy_ready runs awaiting the backend
    ready, inflight, connecting, send_sleeping, monitors, klippy_runs,
    \* the environment: the words in transit from the TFT, the bytes the port
    \* has taken since it was opened, print_stats.state in the subscription
    \* cache (printer_state)
    wire, port, print_state,
    \* history: the lines handed to process_line, the backend calls issued, the
    \* messages handed to write_response, the coroutines that died of an
    \* exception nobody catches, the intervals the M155, M154 and M27
    \* handled so far have set, by kind of report
    rx, calls, replies, died, channels,
    \* counters of the environment's events
    typed, drops, pushes, kready, ticks,
    \* main.py: WebSocketHandler.latest_values (the state mirror) and
    \* message_queue; history: the result of the initial query, the value each
    \* field had in the last delta that mentioned it, whether a later delta has
    \* given a mentioned field another value
    latest_values, message_queue, initial_values, mentioned, overwritten,
    \* main.py: TFTAdapter.gcode_queue, the send_gcode_and_wait that
    \* process_gcode_queue awaits; history: the messages handed to
    \* SerialHandler.write_response, the calls that have returned
    gcode_queue, ws_call, tft_out, ws_done

coreVars ==
    <<fd, connected, send_busy, send_buffer, partial_input, attempting_connect,
      queue, gq_busy, initialized, ready, inflight, connecting,
      rx, calls, replies, died,
      current_file, temperature_report_task, position_report_task, channels>>
flagVars == <<is_ready, is_shutdown, last_printer_state>>
taskVars == <<send_sleeping, monitors, klippy_runs>>
envVars == <<wire, port, print_state>>
cntVars == <<typed, drops, pushes, kready, ticks>>
callVars == <<gcode_queue, ws_call, tft_out, ws_done>>
mirrorVars ==
    <<latest_values, message_queue, initial_values, mentioned, overwritten,
      callVars>>
vars == <<coreVars, flagVars, taskVars, envVars, cntVars, mirrorVars>>

\* ------------------------------------------------------------ word helpers
RECURSIVE Contains(_, _)
\* w occurs in the sequence s
Contains(s, w) == s # <<>> /\ (Head(s) = w \/ Contains(Tail(s), w))

RECURSIVE SplitNL(_)
\* bytes.split(b'\n'): the pieces between the newlines, one more than newlines
SplitNL(data) ==
    IF data = <<>> THEN << <<>> >>
    ELSE LET rest == SplitNL(Tail(data)) IN
         IF Head(data) = NL THEN << <<>> >> \o rest
         ELSE << <<Head(data)>> \o Head(rest) >> \o Tail(rest)

RECURSIVE StripNul(_)
\* bytes.strip(b'\x00'): the zero bytes at the two ends of a chunk
StripNul(data) ==
    IF data = <<>> THEN data
    ELSE IF Head(data) = "\\x00" THEN StripNul(Tail(data))
    ELSE IF data[Len(data)] = "\\x00" THEN StripNul(SubSeq(data, 1, Len(data) - 1))
    ELSE data

\* The words of the form <letter><number> (the regular expressions of
\* process_line), with the keyword and the value they parse to.
NumArg ==
    [w \in {"S50", "S1", "S0", "X1", "P1"} |->
        IF w = "S50" THEN [key |-> "arg_s", val |-> 50]
        ELSE IF w = "S1" THEN [key |-> "arg_s", val |-> 1]
        ELSE IF w = "S0" THEN [key |-> "arg_s", val |-> 0]
        ELSE IF w = "P1" THEN [key |-> "arg_p", val |-> 1]
        ELSE [key |-> "arg_x", val |-> 1]]

\* the bytes of reply number id
Bytes(id) == [k \in 1..MsgLen |-> <<id, k>>]

\* --------------------------------------------------- the synchronous state
\* Everything a callback can change before it returns or awaits, as a record;
\* exc is the exception the code under way has raised.
St ==
    [fd |-> fd, connected |-> connected, send_busy |-> send_busy,
     send_buffer |-> send_buffer, partial_input |-> partial_input,
     attempting_connect |-> attempting_connect,
     queue |-> queue, gq_busy |-> gq_busy, initialized |-> initialized,
     ready |-> ready, inflight |-> inflight, connecting |-> connecting,
     rx |-> rx, calls |-> calls, replies |-> replies, died |-> died,
     current_file |-> current_file,
     temperature_report_task |-> temperature_report_task,
     position_report_task |-> position_report_task,
     channels |-> channels,
     exc |-> None]

Put(s) ==
    /\ fd' = s.fd
    /\ connected' = s.connected
    /\ send_busy' = s.send_busy
    /\ send_buffer' = s.send_buffer
    /\ partial_input' = s.partial_input
    /\ attempting_connect' = s.attempting_connect
    /\ queue' = s.queue
    /\ gq_busy' = s.gq_busy
    /\ initialized' = s.initialized
    /\ ready' = s.ready
    /\ inflight' = s.inflight
    /\ connecting' = s.connecting
    /\ rx' = s.rx
    /\ calls' = s.calls
    /\ replies' = s.replies
    /\ died' = s.died
    /\ current_file' = s.current_file
    /\ temperature_report_task' = s.temperature_report_task
    /\ position_report_task' = s.position_report_task
    /\ channels' = s.channels

Cb(name, src) == [cb |-> name, src |-> src]

\* ------------------------------------------------------- SerialConnection
\* send with the new bytes put in front of the buffer
send_in_front(s, data) ==
    LET s1 == [s EXCEPT !.send_buffer = data \o @] IN
    IF ~s1.send_busy
    THEN [s1 EXCEPT !.send_busy = TRUE, !.ready = Append(@, Cb("_do_send", 0))]
    ELSE s1

\* SerialConnection.send
send(s, data) ==
    LET s1 == [s EXCEPT !.send_buffer = @ \o data] IN
    IF ~s1.send_busy
    THEN [s1 EXCEPT !.send_busy = TRUE, !.ready = Append(@, Cb("_do_send", 0))]
    ELSE s1

\* SerialConnection.disconnect
disconnect(s, reconnect) ==
    LET s1 == IF s.connected
              THEN [s EXCEPT !.fd = None, !.connected = FALSE,
                             !.partial_input = <<>>, !.send_buffer = <<>>,
                             !.initialized = FALSE]
              ELSE s
    IN  IF reconnect /\ ~s1.attempting_connect
        THEN [s1 EXCEPT !.attempting_connect = TRUE, !.connecting = @ + 1]
        ELSE s1

\* TFTAdapter.write_response: kind is the keyword given (message, command,
\* action or error), body the words of its value, src the line answered
write_response(s, kind, body, src) ==
    LET msg == IF kind = "action" THEN <<"//action:">> \o body
               ELSE IF kind = "error" THEN <<"Error:">> \o body
               ELSE body
        s1 == [s EXCEPT !.replies = Append(@, [text |-> msg, src |-> src])]
    IN  send(s1, Bytes(Len(s1.replies)))

\* TFTAdapter.handle_gcode_response, for the responses of PushLines and of
\* _process_queue
handle_gcode_response(s, response, src) ==
    IF Len(response) >= 2 /\ response[1] = "//" /\ response[2] = "Sending"
    THEN s
    ELSE IF Contains(response, "Klipper state") \/ Head(response) = "!!"
    THEN write_response(s, "action", <<"notification">> \o response, src)
    ELSE IF Head(response) \in {"File opened:", "File selected", "ok"}
    THEN write_response(s, "message", response, src)
    ELSE IF Head(response) = "//" /\ Contains(response, "Unknown command")
    THEN write_response(s, "error", Tail(response), src)
    ELSE s

\* ------------------------------------------------------------- TFTAdapter
\* queue_task without the test of gq_busy
queue_task_unguarded(s, task) ==
    LET q == IF task.k = "list"
             THEN s.queue \o [i \in 1..Len(task.v) |->
                                 [k |-> "str", v |-> task.v[i], src |-> task.src]]
             ELSE Append(s.queue, task)
    IN  [s EXCEPT !.queue = q, !.gq_busy = TRUE,
                  !.ready = Append(@, Cb("_process_queue", 0))]

\* TFTAdapter.queue_task, the second definition (the one the class keeps): a
\* task is a script (str), a list of scripts, or anything else, appended as
\* it is; src is the line it stems from
queue_task(s, task) ==
    LET q == IF task.k = "list"
             THEN s.queue \o [i \in 1..Len(task.v) |->
                                 [k |-> "str", v |-> task.v[i], src |-> task.src]]
             ELSE Append(s.queue, task)
        s1 == [s EXCEPT !.queue = q]
    IN  IF ~s1.gq_busy
        THEN [s1 EXCEPT !.gq_busy = TRUE,
                        !.ready = Append(@, Cb("_process_queue", 0))]
        ELSE s1

\* "M112" in line.upper()
HasM112(line) == Contains(line, "M112")

\* process_line's parts: the words, or the gcode and the rest as one argument
Parts(line) ==
    IF Head(line) \in FileGcodes
    THEN << <<Head(line)>>, Tail(line) >>
    ELSE [i \in 1..Len(line) |-> <<line[i]>>]

\* re.match(r'^-?\d+(?:\.\d+)?$', part[1:])
IsNum(part) == Len(part) = 1 /\ part[1] \in DOMAIN NumArg

RECURSIVE ArgString(_)
\* the parts that are no <letter><number>, joined
ArgString(parts) ==
    IF parts = <<>> THEN <<>>
    ELSE (IF IsNum(Head(parts)) THEN <<>> ELSE Head(parts)) \o ArgString(Tail(parts))

\* process_line's params: the keyword arguments built from parts[1:]
Params(parts) ==
    LET args == Tail(parts)
        keyOf(p) == IF IsNum(p) THEN NumArg[p[1]].key ELSE "arg_string"
        keys == {keyOf(args[i]) : i \in 1..Len(args)}
        last(k) == CHOOSE i \in 1..Len(args) :
                      /\ keyOf(args[i]) = k
                      /\ \A j \in 1..Len(args) : keyOf(args[j]) = k => j <= i
    IN  [k \in keys |->
            IF k = "arg_string" THEN ArgString(args) ELSE NumArg[args[last(k)][1]].val]

\* process_line from "script = line" on, for line number n: a call
\* queue_task(func, **params) reaches the one queue_task there is, which takes
\* no keyword
dispatch_line(s, line, n) ==
    IF line = <<>>
    THEN [s EXCEPT !.exc = "IndexError"]
    ELSE LET gcode == Head(line) IN
         IF gcode \in standard_gcodes
         THEN write_response(
                  queue_task(s, [k |-> "str", v |-> line, src |-> n]),
                  "message", <<"ok">>, n)
         ELSE IF gcode \in direct_gcodes
         THEN IF DOMAIN Params(Parts(line)) = {}
              THEN queue_task(s, [k |-> "callable", v |-> gcode, src |-> n])
              ELSE [s EXCEPT !.exc = "TypeError"]
         ELSE queue_task(s, [k |-> "str", v |-> line, src |-> n])

\* process_line without the test for M112
process_line_no_m112(s0, line) ==
    LET s == [s0 EXCEPT !.rx = Append(@, line)] IN
    dispatch_line(s, line, Len(s.rx))

\* TFTAdapter.process_line
process_line(s0, line) ==
    LET s == [s0 EXCEPT !.rx = Append(@, line)]
        n == Len(s.rx)
    IN  IF HasM112(line)
        THEN [s EXCEPT !.ready = Append(@, Cb("emergency_stop", n))]
        ELSE dispatch_line(s, line, n)

\* the body of _handle_incoming's loop: one line
handle_line(s, line) ==
    LET r == process_line(s, line) IN
    IF r.exc = "ServerError"
    THEN handle_gcode_response([r EXCEPT !.exc = None],
             <<"!!", "GCode Processing Error:">> \o line, Len(r.rx))
    ELSE [r EXCEPT !.exc = None]

RECURSIVE handle_lines(_, _)
handle_lines(s, lines) ==
    IF lines = <<>> THEN s
    ELSE handle_lines(handle_line(s, Head(lines)), Tail(lines))

\* SerialConnection._handle_incoming with the chunk data read from the port
_handle_incoming(s, data) ==
    LET pieces == SplitNL(StripNul(data))
        lines == <<s.partial_input \o Head(pieces)>> \o Tail(pieces)
        s1 == [s EXCEPT !.partial_input = lines[Len(lines)]]
    IN  handle_lines(s1, SubSeq(lines, 1, Len(lines) - 1))

\* ------------------------------------------------- the gcode handlers
\* The values of TFTAdapter.direct_gcodes for the gcodes of Lines.  The
\* templates are rendered from printer_state; the rendered text is kept as the
\* template's name.
TEMPERATURE_TEMPLATE == "T:{extruder.temperature} /{extruder.target} B:{heater_bed.temperature} /{heater_bed.target} @:0 B@:0"
FEED_RATE_TEMPLATE == "FR:{gcode_move.speed_factor * 100}%"

\* f"S{arg_s}": the word that parses to the keyword and the value
Fmt(key, val) ==
    CHOOSE w \in DOMAIN NumArg : NumArg[w] = [key |-> key, val |-> val]

\* TFTAdapter._set_feed_rate(**kw)
_set_feed_rate(s, kw, src) ==
    IF "arg_s" \in DOMAIN kw
    THEN queue_task(s, [k |-> "str", v |-> <<"M220", Fmt("arg_s", kw.arg_s)>>,
                        src |-> src])
    ELSE write_response(s, "message", <<FEED_RATE_TEMPLATE, "ok">>, src)

\* _report_temperature that asks the backend: the M105 is queued as a script
_report_temperature_forward(s, src) ==
    queue_task(s, [k |-> "str", v |-> <<"M105">>, src |-> src])

\* TFTAdapter._report_temperature()
_report_temperature(s, src) ==
    write_response(s, "message", <<TEMPERATURE_TEMPLATE, "ok">>, src)

PRINT_STATUS_TEMPLATE == "//action:notification Layer Left {virtual_sdcard.file_position}/{virtual_sdcard.file_size}"
POSITION_TEMPLATE == "X:{gcode_move.position[0]} Y:{gcode_move.position[1]} Z:{gcode_move.position[2]} E:{gcode_move.position[3]}"

\* printer_state.get("print_stats", {}).get("state", "standby")
sd_state == IF print_state = None THEN "standby" ELSE print_state

\* TFTAdapter._clean_filename; a file name is the sequence of its pieces, the
\* pieces "0:/", "gcodes" and "/" being the characters they show.  The result
\* of filename.strip() is thrown away.
_clean_filename(filename) ==
    LET f1 == IF filename # <<>> /\ Head(filename) = "0:/"
              THEN Tail(filename) ELSE filename
        f2 == IF Len(f1) >= 2 /\ f1[1] = "gcodes" /\ f1[2] = "/"
              THEN Tail(f1)
              ELSE IF Len(f1) >= 3 /\ f1[1] = "/" /\ f1[2] = "gcodes" /\ f1[3] = "/"
              THEN Tail(Tail(f1))
              ELSE f1
    IN  IF f2 = <<>> THEN <<"IndexError">>
        ELSE IF Head(f2) # "/" THEN <<"/">> \o f2 ELSE f2

\* TFTAdapter._select_sd_file(arg_string)
_select_sd_file(s, kw, src) ==
    LET name == _clean_filename(kw.arg_string) IN
    IF name = <<"IndexError">> THEN [s EXCEPT !.exc = "IndexError"]
    ELSE queue_task([s EXCEPT !.current_file = name],
                    [k |-> "str", v |-> <<"M23">> \o name, src |-> src])

\* TFTAdapter._start_print()
_start_print(s, src) ==
    IF s.current_file = <<>>
    THEN [s EXCEPT !.exc = "TFTError"]
    ELSE IF sd_state = "paused"
    THEN queue_task(s, [k |-> "str", v |-> <<"RESUME">>, src |-> src])
    ELSE IF sd_state \in {"standby", "cancelled"}
    THEN queue_task(s, [k |-> "str",
                        v |-> <<"SDCARD_PRINT_FILE", "FILENAME=\"">>
                              \o s.current_file \o <<"\"">>,
                        src |-> src])
    ELSE [s EXCEPT !.exc = "TFTError"]

\* TFTAdapter._z_offset_apply_probe()
_z_offset_apply_probe(s, src) ==
    IF sd_state \in {"printing", "paused"}
    THEN write_response(s, "error", <<"Not saved - Printing">>, src)
    ELSE queue_task(s, [k |-> "list",
                        v |-> << <<"Z_OFFSET_APPLY_PROBE">>, <<"SAVE_CONFIG">> >>,
                        src |-> src])

\* event_loop.create_task(self.report(template, interval)), and no task; a
\* field holds the task it refers to and, in others, the loops started from
\* it that still run and that it refers to no more
Task(template, interval) ==
    [template |-> template, interval |-> interval, alive |-> TRUE,
     others |-> <<>>]
NoTask == [template |-> <<>>, interval |-> 0, alive |-> FALSE, others |-> <<>>]

\* the new task put in the field with the old one left to run
start_task_no_cancel(old, new) ==
    [new EXCEPT !.others =
        IF old.alive
        THEN Append(old.others,
                    [template |-> old.template, interval |-> old.interval])
        ELSE old.others]

\* if self.<field>: self.<field>.cancel(); self.<field> = create_task(...)
start_task(old, new) == [new EXCEPT !.others = old.others]

\* _set_temperature_report whose interval 0 leaves the running task alone
_set_temperature_report_keep(s, kw, src) ==
    LET s1 == [s EXCEPT !.channels.temperature = Append(@, kw.arg_s),
                        !.temperature_report_task =
                            IF kw.arg_s > 0
                            THEN start_task(@, Task(<<"ok", TEMPERATURE_TEMPLATE>>,
                                                    kw.arg_s))
                            ELSE @]
    IN  write_response(s1, "message", <<"ok">>, src)

\* TFTAdapter._set_temperature_report(arg_s)
_set_temperature_report(s, kw, src) ==
    LET s1 == [s EXCEPT !.channels.temperature = Append(@, kw.arg_s),
                        !.temperature_report_task =
                            IF kw.arg_s > 0
                            THEN start_task(@, Task(<<"ok", TEMPERATURE_TEMPLATE>>,
                                                    kw.arg_s))
                            ELSE NoTask]
    IN  write_response(s1, "message", <<"ok">>, src)

\* TFTAdapter._set_position_report(arg_s)
_set_position_report(s, kw, src) ==
    IF kw.arg_s > 0
    THEN [s EXCEPT !.channels.position = Append(@, kw.arg_s),
                   !.position_report_task =
                       start_task(@, Task(<<POSITION_TEMPLATE>>, kw.arg_s))]
    ELSE write_response([s EXCEPT !.channels.position = Append(@, kw.arg_s),
                                  !.position_report_task = NoTask],
                        "message", <<"ok">>, src)

\* TFTAdapter._set_print_status_report(arg_s)
_set_print_status_report(s, kw, src) ==
    IF kw.arg_s > 0
    THEN [s EXCEPT !.channels.print_status = Append(@, kw.arg_s),
                   !.position_report_task =
                       start_task(@, Task(<<PRINT_STATUS_TEMPLATE>>, kw.arg_s))]
    ELSE write_response([s EXCEPT !.channels.print_status = Append(@, kw.arg_s),
                                  !.position_report_task = NoTask],
                        "message", <<"ok">>, src)

\* the templates of the other reports, by their first words
FLOW_RATE_TEMPLATE == "E0 Flow:{gcode_move.extrude_factor * 100}%"
FIRMWARE_INFO_TEMPLATE == "FIRMWARE_NAME:{firmware_name} ... Cap:CHAMBER_TEMPERATURE:0"
SOFTWARE_ENDSTOPS_TEMPLATE == "Soft endstops: {state}"
PROBE_OFFSET_TEMPLATE == "M851 X{bltouch.x_offset} Y{bltouch.y_offset} Z{bltouch.z_offset}"
REPORT_SETTINGS_TEMPLATE == "M203 ... M201 ... M206 ... M851 ... M420 S1 ... M106 S{fan.speed}"

\* TFTAdapter._send_ok_response(**args)
_send_ok_response(s, src) == write_response(s, "message", <<"ok">>, src)

\* TFTAdapter._set_bed_leveling(**args): args.get('arg_s') is None without S
\* and 0, which is false too, for S0
_set_bed_leveling(s, kw, src) ==
    IF "arg_s" \in DOMAIN kw /\ kw.arg_s # 0
    THEN queue_task(s, [k |-> "str",
                        v |-> IF kw.arg_s = 0 THEN <<"BED_MESH_CLEAR">>
                              ELSE <<"BED_MESH_PROFILE", "LOAD=default">>,
                        src |-> src])
    ELSE write_response(s, "message", <<"ok">>, src)

\* TFTAdapter._set_flow_rate(**kw)
_set_flow_rate(s, kw, src) ==
    IF "arg_s" \in DOMAIN kw
    THEN queue_task(s, [k |-> "str", v |-> <<"M221", Fmt("arg_s", kw.arg_s)>>,
                        src |-> src])
    ELSE write_response(s, "message", <<FLOW_RATE_TEMPLATE, "ok">>, src)

\* TFTAdapter._report_position, _report_firmware_info,
\* _report_software_endstops, _report_settings
_report_position(s, src) ==
    write_response(s, "message", <<POSITION_TEMPLATE, "ok">>, src)
_report_firmware_info(s, src) ==
    write_response(s, "message", <<FIRMWARE_INFO_TEMPLATE, "ok">>, src)
_report_software_endstops(s, src) ==
    write_response(s, "message", <<SOFTWARE_ENDSTOPS_TEMPLATE, "ok">>, src)
_report_settings(s, src) ==
    write_response(s, "message", <<REPORT_SETTINGS_TEMPLATE, "ok">>, src)

\* TFTAdapter._set_probe_offset(**args)
_set_probe_offset(s, kw, src) ==
    LET s1 == IF DOMAIN kw = {}
              THEN write_response(s, "message", <<PROBE_OFFSET_TEMPLATE>>, src)
              ELSE s
    IN  write_response(s1, "message", <<"ok">>, src)

\* TFTAdapter._handle_filament(params): the four scripts
_handle_filament(length, extruder, zmove) ==
    << <<"G91">>, <<"G92", "E" \o ToString(extruder)>>,
       <<"G1", "Z" \o ToString(zmove), "E" \o ToString(length), "F180">>,
       <<"G92", "E0">> >>

\* TFTAdapter._load_filament and _unload_filament
_load_filament(s, src) ==
    queue_task(s, [k |-> "list", v |-> _handle_filament(25, 0, 0), src |-> src])
_unload_filament(s, src) ==
    queue_task(s, [k |-> "list", v |-> _handle_filament(-25, 0, 0), src |-> src])

\* the keywords a handler must get and those it may get
Required(gcode) ==
    IF gcode \in {"M27", "M154", "M155"} THEN {"arg_s"}
    ELSE IF gcode = "M23" THEN {"arg_string"}
    ELSE {}
Optional(gcode) ==
    IF gcode \in {"M220", "M221"} THEN {"arg_s", "arg_d"}
    ELSE IF gcode = "M503" THEN {"arg_s"}
    ELSE {}

\* the gcodes whose handler takes **args
AnyKeyword == {"G26", "G29", "G30", "M82", "M92", "M108", "T0", "M201", "M203",
               "M206", "M290", "M420", "M851"}

\* cmd(*args, **kwargs) for cmd = direct_gcodes[gcode]: TypeError when the
\* keywords do not fit the handler
call_handler(s, gcode, kw, src) ==
    IF /\ gcode \notin AnyKeyword
       /\ ~(Required(gcode) \subseteq DOMAIN kw
            /\ DOMAIN kw \subseteq Required(gcode) \cup Optional(gcode))
    THEN [s EXCEPT !.exc = "TypeError"]
    ELSE IF gcode = "M220" THEN _set_feed_rate(s, kw, src)
    ELSE IF gcode = "M221" THEN _set_flow_rate(s, kw, src)
    ELSE IF gcode = "M105" THEN _report_temperature(s, src)
    ELSE IF gcode = "M114" THEN _report_position(s, src)
    ELSE IF gcode = "M115" THEN _report_firmware_info(s, src)
    ELSE IF gcode = "M211" THEN _report_software_endstops(s, src)
    ELSE IF gcode = "M503" THEN _report_settings(s, src)
    ELSE IF gcode = "M851" THEN _set_probe_offset(s, kw, src)
    ELSE IF gcode = "M23" THEN _select_sd_file(s, kw, src)
    ELSE IF gcode = "M24" THEN _start_print(s, src)
    ELSE IF gcode = "M500" THEN _z_offset_apply_probe(s, src)
    ELSE IF gcode = "M155" THEN _set_temperature_report(s, kw, src)
    ELSE IF gcode = "M154" THEN _set_position_report(s, kw, src)
    ELSE IF gcode = "M27" THEN _set_print_status_report(s, kw, src)
    ELSE IF gcode \in {"G26", "G29", "G30", "M92", "M108", "T0"}
    THEN _send_ok_response(s, src)
    ELSE IF gcode = "M420" THEN _set_bed_leveling(s, kw, src)
    ELSE IF gcode = "M701" THEN _load_filament(s, src)
    ELSE IF gcode = "M702" THEN _unload_filament(s, src)
    ELSE s

RECURSIVE process_queue_loop(_)
\* _process_queue from the test of its while loop to its next await or its end
process_queue_loop(s) ==
    IF s.queue = <<>>
    THEN [s EXCEPT !.gq_busy = FALSE]
    ELSE LET item == Head(s.queue)
             s1 == [s EXCEPT !.queue = Tail(@)]
         IN  IF item.k = "str"
             THEN LET call == [m |-> IF item.v \in RESTART_GCODES
                                     THEN "do_restart" ELSE "run_gcode",
                               script |-> item.v, src |-> item.src, st |-> "sent"]
                  IN  [s1 EXCEPT !.calls = Append(@, call),
                                 !.inflight = Append(@, Len(s1.calls) + 1)]
             ELSE IF item.k = "tuple"
             THEN \* cmd(*args, **kwargs); an exception is logged
                  process_queue_loop(
                      [call_handler(s1, item.v, item.kw, item.src)
                          EXCEPT !.exc = None])
             ELSE \* cmd, args, kwargs = item: not a tuple, outside the try
                  [s1 EXCEPT !.died = [@ EXCEPT !["_process_queue"] = @ + 1]]

\* _process_queue from its start
_process_queue(s) == process_queue_loop([s EXCEPT !.gq_busy = TRUE])

\* _process_queue when run_gcode / do_restart number c returns (ok) or raises
\* server.error
process_queue_resume(s, c, ok) ==
    LET s1 == [s EXCEPT !.calls[c].st = IF ok THEN "ok" ELSE "error",
                        !.inflight = SelectSeq(@, LAMBDA x : x # c)]
        s2 == IF ok THEN s1
              ELSE handle_gcode_response(s1,
                       <<"!!", "Error executing script">> \o s1.calls[c].script,
                       s1.calls[c].src)
    IN  process_queue_loop(s2)

\* klippy_apis.emergency_stop, registered by process_line for line number src
emergency_stop(s, src) ==
    [s EXCEPT !.calls = Append(@, [m |-> "emergency_stop", script |-> <<>>,
                                   src |-> src, st |-> "sent"])]

\* ---------------------------------------------------------------- actions
Fd == "fd"

InitAdapter ==
    /\ fd = None
    /\ connected = FALSE
    /\ send_busy = FALSE
    /\ send_buffer = <<>>
    /\ partial_input = <<>>
    /\ attempting_connect = TRUE
    /\ queue = <<>>
    /\ gq_busy = FALSE
    /\ initialized = FALSE
    /\ is_ready = FALSE
    /\ is_shutdown = FALSE
    /\ last_printer_state = "O"
    /\ ready = <<>>
    /\ inflight = <<>>
    /\ connecting = 1
    /\ send_sleeping = 0
    /\ monitors = 0
    /\ klippy_runs = 0
    /\ wire = <<>>
    /\ port = <<>>
    /\ print_state = None
    /\ rx = <<>>
    /\ calls = <<>>
    /\ replies = <<>>
    /\ died = [c \in {"_process_queue", "_do_send"} |-> 0]
    /\ current_file = <<>>
    /\ temperature_report_task = NoTask
    /\ position_report_task = NoTask
    /\ channels = [c \in Kinds |-> <<>>]
    /\ typed = 0
    /\ drops = 0
    /\ pushes = 0
    /\ kready = 0
    /\ ticks = 0

\* main.py is not part of the component: its state stays empty
\* no send_gcode_and_wait in progress
NoCall == [st |-> "idle", gcode |-> <<>>, id |-> 0, message |-> <<>>]

\* main.py's TFTAdapter after __init__
InitCall ==
    /\ gcode_queue = <<>>
    /\ ws_call = NoCall
    /\ tft_out = <<>>
    /\ ws_done = <<>>

Init ==
    /\ InitAdapter
    /\ latest_values = <<>>
    /\ message_queue = <<>>
    /\ initial_values = <<>>
    /\ mentioned = <<>>
    /\ overwritten = FALSE
    /\ InitCall

\* the head of the event loop's callbacks, taken off
Popped == [St EXCEPT !.ready = Tail(@)]

\* The TFT sends a line.
TftSend ==
    /\ typed < MaxLines
    /\ \E line \in Lines : wire' = wire \o line \o <<NL>>
    /\ typed' = typed + 1
    /\ UNCHANGED <<coreVars, flagVars, taskVars, port, print_state, drops,
                   pushes, kready, ticks, mirrorVars>>

\* component_init's or disconnect's connect() opens the port
ConnectOk ==
    /\ connecting > 0
    /\ Put([St EXCEPT !.connecting = @ - 1,
                      !.fd = IF connected THEN @ ELSE Fd,
                      !.connected = TRUE,
                      !.attempting_connect = FALSE])
    /\ port' = IF connected THEN port ELSE <<>>
    /\ UNCHANGED <<flagVars, taskVars, wire, print_state, cntVars, mirrorVars>>

\* ... or gives up
ConnectAbort ==
    /\ connecting > 0
    /\ ~connected
    /\ Put([St EXCEPT !.connecting = @ - 1, !.attempting_connect = FALSE])
    /\ UNCHANGED <<flagVars, taskVars, envVars, cntVars, mirrorVars>>

\* the reader callback: os.read returns some of what is in transit
HandleIncoming ==
    /\ fd # None
    /\ \E n \in 1..Len(wire) :
          /\ Put(_handle_incoming(St, SubSeq(wire, 1, n)))
          /\ wire' = SubSeq(wire, n + 1, Len(wire))
    /\ UNCHANGED <<flagVars, taskVars, port, print_state, cntVars, mirrorVars>>

\* the reader callback: os.read returns nothing
HandleIncomingEof ==
    /\ fd # None
    /\ drops < MaxDrops
    /\ drops' = drops + 1
    /\ Put(disconnect(St, TRUE))
    /\ UNCHANGED <<flagVars, taskVars, envVars, typed, pushes, kready, ticks,
                   mirrorVars>>

RunProcessQueue ==
    /\ ready # <<>>
    /\ Head(ready).cb = "_process_queue"
    /\ Put(_process_queue(Popped))
    /\ UNCHANGED <<flagVars, taskVars, envVars, cntVars, mirrorVars>>

RunEmergencyStop ==
    /\ ready # <<>>
    /\ Head(ready).cb = "emergency_stop"
    /\ Put(emergency_stop(Popped, Head(ready).src))
    /\ UNCHANGED <<flagVars, taskVars, envVars, cntVars, mirrorVars>>

\* the backend answers a call _process_queue awaits
BackendReply ==
    /\ \E i \in 1..Len(inflight), ok \in BOOLEAN :
          Put(process_queue_resume(St, inflight[i], ok))
    /\ UNCHANGED <<flagVars, taskVars, envVars, cntVars, mirrorVars>>

\* _do_send's while loop from its test on: the buffer is written whole, or
\* written up to byte k when os.write raises: EAGAIN and the like (sleep,
\* then again) or EBADF / EPIPE (disconnect, return)
do_send_loop(s, k, how) ==
    IF s.send_buffer = <<>> \/ ~s.connected
    THEN [s EXCEPT !.send_busy = FALSE]
    ELSE IF how = "all"
    THEN [s EXCEPT !.send_buffer = <<>>, !.send_busy = FALSE]
    ELSE LET s1 == [s EXCEPT !.send_buffer = SubSeq(@, k + 1, Len(@))] IN
         IF how = "again" THEN s1 ELSE disconnect(s1, TRUE)

\* what the port takes in do_send_loop
Written(s, k, how) ==
    IF s.send_buffer = <<>> \/ ~s.connected THEN <<>>
    ELSE IF how = "all" THEN s.send_buffer
    ELSE SubSeq(s.send_buffer, 1, k)

Hows(s) ==
    IF s.send_buffer = <<>> \/ ~s.connected THEN {"all"}
    ELSE {"all", "again"} \cup (IF drops < MaxDrops THEN {"error"} ELSE {})

SendStep(s) ==
    \E how \in Hows(s), k \in 0..(Len(s.send_buffer) - 1) :
        /\ how = "all" => k = 0
        /\ Put(do_send_loop(s, k, how))
        /\ port' = port \o Written(s, k, how)
        /\ send_sleeping' = IF how = "again" THEN 1 ELSE 0
        /\ drops' = IF how = "error" THEN drops + 1 ELSE drops

RunDoSend ==
    /\ ready # <<>>
    /\ Head(ready).cb = "_do_send"
    /\ IF fd = None
       THEN \* assert self.fd is not None
            /\ Put([Popped EXCEPT !.died = [@ EXCEPT !["_do_send"] = @ + 1]])
            /\ UNCHANGED <<port, send_sleeping, drops>>
       ELSE SendStep(Popped)
    /\ UNCHANGED <<flagVars, monitors, klippy_runs, wire, print_state, typed,
                   pushes, kready, ticks, mirrorVars>>

\* _do_send wakes from asyncio.sleep(.001)
DoSendResume ==
    /\ send_sleeping > 0
    /\ SendStep(St)
    /\ UNCHANGED <<flagVars, monitors, klippy_runs, wire, print_state, typed,
                   pushes, kready, ticks, mirrorVars>>

\* The lines the backend pushes (server:gcode_response) in this model.
PushLines == { <<"!!", "Move out of range">>, <<"ok">> }

GcodeResponse ==
    /\ pushes < MaxPush
    /\ pushes' = pushes + 1
    /\ \E r \in PushLines : Put(handle_gcode_response(St, r, 0))
    /\ UNCHANGED <<flagVars, taskVars, envVars, typed, drops, kready, ticks,
                   mirrorVars>>

\* server:klippy_ready: _process_klippy_ready starts and awaits the backend
KlippyReady ==
    /\ kready < MaxReady
    /\ kready' = kready + 1
    /\ klippy_runs' = klippy_runs + 1
    /\ UNCHANGED <<coreVars, flagVars, send_sleeping, monitors, envVars, typed,
                   drops, pushes, ticks, mirrorVars>>

\* _process_klippy_ready gets its answers: the subscription is made (subscribed)
\* or fails, which is logged; the monitor task is created either way
KlippyReadyDone ==
    /\ klippy_runs > 0
    /\ klippy_runs' = klippy_runs - 1
    /\ \E subscribed \in BOOLEAN :
          print_state' = IF subscribed /\ print_state = None
                         THEN "standby" ELSE print_state
    /\ is_shutdown' = FALSE
    /\ is_ready' = TRUE
    /\ monitors' = monitors + 1
    /\ UNCHANGED <<coreVars, last_printer_state, send_sleeping, wire, port,
                   cntVars, mirrorVars>>

\* _process_klippy_ready runs out of retries and raises
KlippyReadyFail ==
    /\ klippy_runs > 0
    /\ klippy_runs' = klippy_runs - 1
    /\ UNCHANGED <<coreVars, flagVars, send_sleeping, monitors, envVars,
                   cntVars, mirrorVars>>

\* server:klippy_shutdown
KlippyShutdown ==
    /\ pushes < MaxPush
    /\ pushes' = pushes + 1
    /\ is_shutdown' = TRUE
    /\ UNCHANGED <<coreVars, is_ready, last_printer_state, taskVars, envVars,
                   typed, drops, kready, ticks, mirrorVars>>

\* server:klippy_disconnect
KlippyDisconnect ==
    /\ pushes < MaxPush
    /\ pushes' = pushes + 1
    /\ Put(write_response(St, "message", <<"{'status': 'O'}">>, 0))
    /\ last_printer_state' = "O"
    /\ is_ready' = FALSE
    /\ is_shutdown' = FALSE
    /\ UNCHANGED <<taskVars, envVars, typed, drops, kready, ticks, mirrorVars>>

PrintStates == {"standby", "printing", "paused", "cancelled", "complete"}

\* the backend's status update reaches the subscription cache
StatusUpdate ==
    /\ pushes < MaxPush
    /\ pushes' = pushes + 1
    /\ print_state # None
    /\ \E st \in PrintStates \ {print_state} : print_state' = st
    /\ UNCHANGED <<coreVars, flagVars, taskVars, wire, port, typed, drops,
                   kready, ticks, mirrorVars>>

\* one round of a _monitor_print_status task's loop
_monitor_print_status(s) ==
    LET state == IF print_state = None THEN "standby" ELSE print_state IN
    IF state = "printing" /\ last_printer_state # "printing"
    THEN write_response(s, "action", <<"print_start">>, 0)
    ELSE IF state = "paused" /\ last_printer_state = "paused"
    THEN write_response(s, "action", <<"pause">>, 0)
    ELSE IF state = "printing" /\ last_printer_state = "paused"
    THEN write_response(s, "action", <<"resume">>, 0)
    ELSE IF state = "cancelled" /\ last_printer_state # "cancelled"
    THEN write_response(s, "action", <<"cancel">>, 0)
    ELSE s

MonitorTick ==
    /\ monitors > 0
    /\ ticks < MaxTicks
    /\ ticks' = ticks + 1
    /\ Put(_monitor_print_status(St))
    /\ last_printer_state' = IF print_state = None THEN "standby" ELSE print_state
    /\ UNCHANGED <<is_ready, is_shutdown, taskVars, envVars, typed, drops,
                   pushes, kready, mirrorVars>>

\* The serial link, the dispatcher, the queue and the backend's answers.
Next ==
    \/ TftSend
    \/ ConnectOk
    \/ ConnectAbort
    \/ HandleIncoming
    \/ HandleIncomingEof
    \/ RunProcessQueue
    \/ RunEmergencyStop
    \/ BackendReply
    \/ RunDoSend
    \/ DoSendResume
    \/ GcodeResponse

Spec == Init /\ [][Next]_vars

\* The same under the schedule of the event loop: a callback registered is
\* run, a sleep ends, a port that can be opened is opened, what the TFT has
\* sent is read, and the backend answers every call it is sent.
SpecLive ==
    /\ Init /\ [][Next]_vars
    /\ WF_vars(ConnectOk)
    /\ WF_vars(HandleIncoming)
    /\ WF_vars(RunProcessQueue)
    /\ WF_vars(RunEmergencyStop)
    /\ WF_vars(RunDoSend)
    /\ WF_vars(DoSendResume)
    /\ WF_vars(BackendReply)

\* the adapter under a scheduler that runs every callback and task in the
\* end, with a backend that may leave a call unanswered
SpecNoAnswer ==
    /\ Init /\ [][Next]_vars
    /\ WF_vars(ConnectOk) /\ WF_vars(HandleIncoming)
    /\ WF_vars(RunProcessQueue) /\ WF_vars(RunEmergencyStop)
    /\ WF_vars(RunDoSend) /\ WF_vars(DoSendResume)

\* The same with the klippy events and the print status monitor.
NextKlippy ==
    \/ TftSend
    \/ ConnectOk
    \/ ConnectAbort
    \/ HandleIncoming
    \/ HandleIncomingEof
    \/ RunProcessQueue
    \/ RunEmergencyStop
    \/ BackendReply
    \/ RunDoSend
    \/ DoSendResume
    \/ GcodeResponse
    \/ KlippyReady
    \/ KlippyReadyDone
    \/ KlippyReadyFail
    \/ KlippyShutdown
    \/ KlippyDisconnect
    \/ StatusUpdate
    \/ MonitorTick

SpecKlippy == Init /\ [][NextKlippy]_vars

\* ------------------------------------------------- klippy restarts
MaxRestarts == 2

\* server:klippy_ready, once more after a restart of klippy
KlippyReadyEvent ==
    /\ kready < MaxRestarts
    /\ kready' = kready + 1
    /\ klippy_runs' = klippy_runs + 1
    /\ UNCHANGED <<coreVars, flagVars, send_sleeping, monitors, envVars, typed,
                   drops, pushes, ticks, mirrorVars>>

\* The klippy events, the print status monitor and the serial link.
NextMonitor ==
    \/ KlippyReadyEvent
    \/ KlippyReadyDone
    \/ KlippyReadyFail
    \/ KlippyShutdown
    \/ KlippyDisconnect
    \/ StatusUpdate
    \/ MonitorTick
    \/ ConnectOk
    \/ RunDoSend
    \/ DoSendResume

SpecMonitor == Init /\ [][NextMonitor]_vars

\* ------------------------------------------------- the print commands
\* Lines for the handlers of the print commands, and two lines forwarded.
PrintLines ==
    { <<"M23", "0:/", "gcodes", "/", "cube.gcode">>,
      <<"M23", "\"", "benchy.gcode", "\"">>,
      <<"M24">>, <<"M500">>, <<"G1", "X1">>, <<"G4">> }

\* The TFT sends one of them.
TftSendPrint ==
    /\ typed < MaxLines
    /\ \E line \in PrintLines : wire' = wire \o line \o <<NL>>
    /\ typed' = typed + 1
    /\ UNCHANGED <<coreVars, flagVars, taskVars, port, print_state, drops,
                   pushes, kready, ticks, mirrorVars>>

\* The component as it runs, fed with the print commands.
NextPrint ==
    \/ TftSendPrint
    \/ ConnectOk
    \/ HandleIncoming
    \/ RunProcessQueue
    \/ BackendReply
    \/ RunDoSend
    \/ DoSendResume
    \/ KlippyReady
    \/ KlippyReadyDone
    \/ StatusUpdate

SpecPrint == Init /\ [][NextPrint]_vars

\* ------------------------------------------------- lines with a checksum
\* config.getboolean('enable_checksum', True)
enable_checksum == TRUE

\* the bytes of the words that lines with a checksum are made of
Ascii ==
    [w \in {"G4", "G1", "X1"} |->
        IF w = "G4" THEN <<71, 52>>
        ELSE IF w = "G1" THEN <<71, 49>>
        ELSE <<88, 49>>]

\* the words that end in *<cc>: the word in front of the star and the number
\* behind it
StarWords ==
    [w \in {"G4*115", "G4*114", "X1*63", "X1*319", "X1*0"} |->
        IF w = "G4*115" THEN [word |-> "G4", cc |-> 115]
        ELSE IF w = "G4*114" THEN [word |-> "G4", cc |-> 114]
        ELSE IF w = "X1*63" THEN [word |-> "X1", cc |-> 63]
        ELSE IF w = "X1*319" THEN [word |-> "X1", cc |-> 319]
        ELSE [word |-> "X1", cc |-> 0]]

ChecksumLines ==
    { <<"G4*115">>, <<"G4*114">>, <<"G1", "X1*63">>, <<"G1", "X1*319">>,
      <<"G1", "X1*0">> }

\* The TFT sends a line with a checksum.
TftSendChecksum ==
    /\ typed < MaxLines
    /\ \E line \in ChecksumLines : wire' = wire \o line \o <<NL>>
    /\ typed' = typed + 1
    /\ UNCHANGED <<coreVars, flagVars, taskVars, port, print_state, drops,
                   pushes, kready, ticks, mirrorVars>>

\* The component as it runs, fed with lines that carry a checksum.
NextChecksum ==
    \/ TftSendChecksum
    \/ ConnectOk
    \/ HandleIncoming
    \/ RunProcessQueue
    \/ BackendReply
    \/ RunDoSend
    \/ DoSendResume

SpecChecksum == Init /\ [][NextChecksum]_vars

\* ------------------------------------------------- the commands of the table
TableLines ==
    { <<"M22">>, <<"M92">>, <<"T0">>, <<"M701">>, <<"M702">>, <<"G1", "X1">> }

\* The TFT sends one of them.
TftSendTable ==
    /\ typed < MaxLines
    /\ \E line \in TableLines : wire' = wire \o line \o <<NL>>
    /\ typed' = typed + 1
    /\ UNCHANGED <<coreVars, flagVars, taskVars, port, print_state, drops,
                   pushes, kready, ticks, mirrorVars>>

\* The component as it runs, fed with these commands.
NextTable ==
    \/ TftSendTable
    \/ ConnectOk
    \/ HandleIncoming
    \/ RunProcessQueue
    \/ BackendReply
    \/ RunDoSend
    \/ DoSendResume

SpecTable == Init /\ [][NextTable]_vars

\* ------------------------------------------------- the byte stream, read
\* in chunks; lines with zero bytes among them
ChunkLines ==
    { <<"G4">>, <<"G1", "X1">>, <<"G1", "\\x00", "X1">>, <<"G4", "\\x00">> }

\* The TFT sends one of them.
TftSendChunks ==
    /\ typed < MaxLines
    /\ \E line \in ChunkLines : wire' = wire \o line \o <<NL>>
    /\ typed' = typed + 1
    /\ UNCHANGED <<coreVars, flagVars, taskVars, port, print_state, drops,
                   pushes, kready, ticks, mirrorVars>>

\* The component as it runs, reading these lines in chunks of any size.
NextChunks ==
    \/ TftSendChunks
    \/ ConnectOk
    \/ HandleIncoming
    \/ RunProcessQueue
    \/ BackendReply
    \/ RunDoSend
    \/ DoSendResume

SpecChunks == Init /\ [][NextChunks]_vars

\* ------------------------------------------------- the handlers, called
\* The lines whose handlers are called in SpecHandlers and in SpecReports.
HandlerLines ==
    { <<"M23", "0:/", "gcodes", "/", "cube.gcode">>,
      <<"M23", "\"", "benchy.gcode", "\"">>,
      <<"M24">>, <<"M500">> }

ReportLines ==
    { <<"M155", "S1">>, <<"M155", "S0">>, <<"M154", "S1">>, <<"M154", "S0">>,
      <<"M27", "S1">>, <<"M27", "S0">> }

\* queue_task(func, **params) as the first definition of queue_task has it:
\* the handler of the line, with the keywords process_line builds, is put in
\* the queue as the tuple (cmd, args, kwargs)
queue_call(s0, line) ==
    LET s == [s0 EXCEPT !.rx = Append(@, line)] IN
    queue_task(s, [k |-> "tuple", v |-> Head(line),
                   kw |-> Params(Parts(line)), src |-> Len(s.rx)])

QueueHandler ==
    /\ typed < MaxCalls
    /\ typed' = typed + 1
    /\ \E line \in HandlerLines : Put(queue_call(St, line))
    /\ UNCHANGED <<flagVars, taskVars, envVars, drops, pushes, kready, ticks,
                   mirrorVars>>

QueueReport ==
    /\ typed < MaxCalls
    /\ typed' = typed + 1
    /\ \E line \in ReportLines : Put(queue_call(St, line))
    /\ UNCHANGED <<flagVars, taskVars, envVars, drops, pushes, kready, ticks,
                   mirrorVars>>

\* TFTAdapter.report, one round of the loop of the task kept in field which
report(s, which) ==
    IF s.connected
    THEN write_response(s, "message", s[which].template, 0)
    ELSE [s EXCEPT ![which].alive = FALSE]

\* the same for loop k of those the field refers to no more
report_other(s, which, k) ==
    IF s.connected
    THEN write_response(s, "message", s[which].others[k].template, 0)
    ELSE [s EXCEPT ![which].others =
             SubSeq(@, 1, k - 1) \o SubSeq(@, k + 1, Len(@))]

ReportTick ==
    /\ ticks < MaxTicks
    /\ ticks' = ticks + 1
    /\ \E which \in {"temperature_report_task", "position_report_task"} :
          \/ /\ St[which].alive
             /\ Put(report(St, which))
          \/ \E k \in 1..Len(St[which].others) :
                Put(report_other(St, which, k))
    /\ UNCHANGED <<flagVars, taskVars, envVars, typed, drops, pushes, kready,
                   mirrorVars>>

\* The handlers of the print commands reached as the first definition of
\* queue_task would have them reached, with the queue, the serial link and the
\* print state.
NextHandlers ==
    \/ QueueHandler
    \/ ConnectOk
    \/ RunProcessQueue
    \/ BackendReply
    \/ RunDoSend
    \/ DoSendResume
    \/ KlippyReady
    \/ KlippyReadyDone
    \/ StatusUpdate

SpecHandlers == Init /\ [][NextHandlers]_vars

\* The handlers of the report commands, reached the same way, and the report
\* tasks they start.
NextReports ==
    \/ QueueReport
    \/ ConnectOk
    \/ HandleIncomingEof
    \/ RunProcessQueue
    \/ RunDoSend
    \/ DoSendResume
    \/ ReportTick

SpecReports == Init /\ [][NextReports]_vars

\* ------------------------------------------------- the intervals, set anew
IntervalLines ==
    { <<"M155", "S1">>, <<"M155", "S50">>, <<"M155", "S0">>,
      <<"M154", "S1">>, <<"M154", "S50">>, <<"M154", "S0">> }

QueueInterval ==
    /\ typed < MaxCalls
    /\ typed' = typed + 1
    /\ \E line \in IntervalLines : Put(queue_call(St, line))
    /\ UNCHANGED <<flagVars, taskVars, envVars, drops, pushes, kready, ticks,
                   mirrorVars>>

\* The handlers of M155 and M154 called with one interval after the other, and
\* the report loops they start.
NextIntervals ==
    \/ QueueInterval
    \/ ConnectOk
    \/ HandleIncomingEof
    \/ RunProcessQueue
    \/ RunDoSend
    \/ DoSendResume
    \/ ReportTick

SpecIntervals == Init /\ [][NextIntervals]_vars

\* ------------------------------------------------- the commands that are
\* only acknowledged, called
AckLines ==
    { <<"M108">>, <<"M92">>, <<"T0">>, <<"M420">>, <<"M420", "S1">>,
      <<"M420", "S0">>, <<"G29", "P1">> }

QueueAck ==
    /\ typed < MaxCalls
    /\ typed' = typed + 1
    /\ \E line \in AckLines : Put(queue_call(St, line))
    /\ UNCHANGED <<flagVars, taskVars, envVars, drops, pushes, kready, ticks,
                   mirrorVars>>

\* The handlers of these commands, reached as the first definition of
\* queue_task would have them reached, with the queue, the serial link and the
\* backend.
NextAck ==
    \/ QueueAck
    \/ ConnectOk
    \/ RunProcessQueue
    \/ BackendReply
    \/ RunDoSend
    \/ DoSendResume

SpecAck == Init /\ [][NextAck]_vars

\* ------------------------------------------------- the reports, called
\* the commands answered from printer_state, and three that are not
LocalLines ==
    { <<"M105">>, <<"M114">>, <<"M115">>, <<"M211">>, <<"M503">>, <<"M851">>,
      <<"M220">>, <<"M221">>,
      <<"M220", "S50">>, <<"M155", "S1">>,
      <<"M23", "0:/", "gcodes", "/", "cube.gcode">> }

QueueLocal ==
    /\ typed < MaxLines
    /\ typed' = typed + 1
    /\ \E line \in LocalLines : Put(queue_call(St, line))
    /\ UNCHANGED <<flagVars, taskVars, envVars, drops, pushes, kready, ticks,
                   mirrorVars>>

\* The handlers of these commands, reached as the first definition of
\* queue_task would have them reached, with the queue, the serial link and the
\* backend.
NextLocal ==
    \/ QueueLocal
    \/ ConnectOk
    \/ RunProcessQueue
    \/ BackendReply
    \/ RunDoSend
    \/ DoSendResume

SpecLocal == Init /\ [][NextLocal]_vars

\* ------------------------------------------------- the file names, selected
MaxName == 3
MaxSelects == 1

\* the pieces a file name is made of
NamePieces == {"\"", "0:/", "gcodes", "/", "cube.gcode"}

\* the file names of up to MaxName pieces, the empty one too
FileNames ==
    UNION {[1..n -> NamePieces] : n \in 0..MaxName}

\* M23 <name>: _select_sd_file is put in the queue with the name as arg_string
QueueName ==
    /\ typed < MaxSelects
    /\ typed' = typed + 1
    /\ \E name \in FileNames : Put(queue_call(St, <<"M23">> \o name))
    /\ UNCHANGED <<flagVars, taskVars, envVars, drops, pushes, kready, ticks,
                   mirrorVars>>

\* _select_sd_file with _clean_filename, called for these names, with the queue,
\* the serial link and the backend.
NextClean ==
    \/ QueueName
    \/ ConnectOk
    \/ RunProcessQueue
    \/ BackendReply
    \/ RunDoSend
    \/ DoSendResume

SpecClean == Init /\ [][NextClean]_vars

\* ------------------------------------------------- the state mirror (main.py)
\* The objects of the initial query in this model (two of TRACKED_OBJECTS), an
\* object the query does not name, and their fields and values.
Tracked == {"extruder", "heater_bed"}
Untracked == {"print_stats"}
Fields == {"temperature", "target"}
MaxVal == 1
Vals == 0..MaxVal

\* the partial maps from S to T
Partial(S, T) == UNION {[D -> T] : D \in SUBSET S}

\* the params[0] of a notify_status_update
MaxDeltaFields == 2
Deltas ==
    {d \in Partial(Tracked \cup Untracked, Partial(Fields, Vals)) :
        /\ \A o \in DOMAIN d : DOMAIN d[o] # {}
        /\ \A o \in DOMAIN d \cap Untracked : DOMAIN d[o] \subseteq {"target"}
        /\ Cardinality({<<o, f>> \in (DOMAIN d) \X Fields : f \in DOMAIN d[o]})
              <= MaxDeltaFields}

\* dict.update taken for an assignment: d = values
DictAssign(d, values) == values

\* dict.update
DictUpdate(d, values) ==
    [f \in DOMAIN d \cup DOMAIN values |->
        IF f \in DOMAIN values THEN values[f] ELSE d[f]]

\* update_latest_values with the object's fields replaced by the delta's
update_latest_values_replace(lv, updates) ==
    [key \in DOMAIN lv |->
        IF key \in DOMAIN updates THEN updates[key] ELSE lv[key]]

\* WebSocketHandler.update_latest_values
update_latest_values(lv, updates) ==
    [key \in DOMAIN lv |->
        IF key \in DOMAIN updates THEN DictUpdate(lv[key], updates[key])
        ELSE lv[key]]

\* the messages the socket delivers
Messages ==
    {[method |-> "notify_status_update", params |-> d] : d \in Deltas}
    \cup {[method |-> "notify_gcode_response", params |-> r] : r \in PushLines}
    \cup {[method |-> None, params |-> <<>>]}

\* the state after WebSocketHandler.initialize_values
InitMirror ==
    /\ InitAdapter
    /\ latest_values \in [Tracked -> [Fields -> Vals]]
    /\ initial_values = latest_values
    /\ message_queue = <<>>
    /\ mentioned = [o \in Tracked \cup Untracked |-> [f \in {} |-> 0]]
    /\ overwritten = FALSE
    /\ InitCall

\* WebSocketHandler.handle_message
HandleMessage(msg) ==
    /\ latest_values' = IF msg.method = "notify_status_update"
                        THEN update_latest_values(latest_values, msg.params)
                        ELSE latest_values
    /\ message_queue' = IF msg.method = "notify_gcode_response"
                        THEN Append(message_queue, msg.params)
                        ELSE message_queue
    /\ msg.method = "notify_gcode_response" => Len(message_queue) < MaxPush
    /\ mentioned' = IF msg.method = "notify_status_update"
                    THEN [o \in DOMAIN mentioned |->
                            IF o \in DOMAIN msg.params
                            THEN DictUpdate(mentioned[o], msg.params[o])
                            ELSE mentioned[o]]
                    ELSE mentioned
    /\ overwritten' = IF msg.method = "notify_status_update"
                      THEN \/ overwritten
                           \/ \E o \in Tracked \cap DOMAIN msg.params :
                                 \E f \in DOMAIN msg.params[o] \cap DOMAIN mentioned[o] :
                                    mentioned[o][f] # msg.params[o][f]
                      ELSE overwritten
    /\ UNCHANGED <<initial_values, callVars, coreVars, flagVars, taskVars,
                   envVars, cntVars>>

StatusMessage ==
    \E msg \in Messages : msg.method = "notify_status_update" /\ HandleMessage(msg)

OtherMessage ==
    \E msg \in Messages : msg.method # "notify_status_update" /\ HandleMessage(msg)

NextMirror == StatusMessage \/ OtherMessage

SpecMirror == InitMirror /\ [][NextMirror]_vars

\* ------------------------------------------------- the backend call (main.py)
\* the commands handle_gcode passes to send_gcode_and_wait as they are
CallGcodes == { <<"G28">>, <<"G1", "X1">> }

\* what the socket of a call delivers: gcode output and other notifications
\* pushed to every client, and the response to the request
CallMessages ==
    {[method |-> "notify_gcode_response", id |-> 0, result |-> r] :
        r \in {"// echo", "!! Move out of range"}}
    \cup {[method |-> "notify_proc_stat_update", id |-> 0, result |-> None]}
    \cup {[method |-> None, id |-> 100, result |-> r] : r \in {"ok", None}}

\* a Python None, a str of lines
NoneValue == [t |-> "NoneType", v |-> <<>>]
Str(lines) == [t |-> "str", v |-> lines]

\* f"{response}"
Format(response) == IF response.t = "NoneType" THEN <<"None">> ELSE response.v

\* process_gcode_queue once handle_gcode has returned response for gcode
write_call_response(out, gcode, response) ==
    IF response = Str(<<>>)
    THEN out
    ELSE Append(out, [gcode |-> gcode, call |-> Len(ws_done) + 1,
                      text |-> IF Format(response) = <<"None">>
                               THEN <<"ok">> ELSE response.v])

\* serial_reader puts a line into gcode_queue
SerialReader ==
    /\ Len(gcode_queue) + Len(ws_done)
           + (IF ws_call.st = "idle" THEN 0 ELSE 1) < MaxCalls
    /\ \E gcode \in CallGcodes : gcode_queue' = Append(gcode_queue, gcode)
    /\ UNCHANGED <<ws_call, tft_out, ws_done, latest_values, message_queue,
                   initial_values, mentioned, overwritten,
                   coreVars, flagVars, taskVars, envVars, cntVars>>

\* process_gcode_queue takes a command; handle_gcode passes it to
\* send_gcode_and_wait, which connects, sends the request and waits
CallSend ==
    /\ ws_call.st = "idle"
    /\ gcode_queue # <<>>
    /\ Head(gcode_queue) \in CallGcodes
    /\ gcode_queue' = Tail(gcode_queue)
    /\ ws_call' = [st |-> "wait", gcode |-> Head(gcode_queue), id |-> 100,
                   message |-> <<>>]
    /\ UNCHANGED <<tft_out, ws_done, latest_values, message_queue,
                   initial_values, mentioned, overwritten,
                   coreVars, flagVars, taskVars, envVars, cntVars>>

\* the call's return: the record of it, and process_gcode_queue's write
CallReturn(how, result, response) ==
    /\ ws_done' = Append(ws_done, [gcode |-> ws_call.gcode, id |-> ws_call.id,
                                   how |-> how, result |-> result,
                                   returned |-> response])
    /\ tft_out' = write_call_response(tft_out, ws_call.gcode, response)
    /\ ws_call' = NoCall

\* send_gcode_and_wait's loop: websocket.recv() returns a message
CallRecv ==
    /\ ws_call.st = "wait"
    /\ \E msg \in CallMessages :
          IF msg.method = "notify_gcode_response"
          THEN /\ Len(ws_call.message) < MaxRecv
               /\ ws_call' = [ws_call EXCEPT !.message = Append(@, msg.result)]
               /\ UNCHANGED <<tft_out, ws_done>>
          ELSE IF msg.id = ws_call.id
          THEN CallReturn("response", msg.result,
                          Str(Append(ws_call.message, msg.result)))
          ELSE UNCHANGED <<ws_call, tft_out, ws_done>>
    /\ UNCHANGED <<gcode_queue, latest_values, message_queue,
                   initial_values, mentioned, overwritten,
                   coreVars, flagVars, taskVars, envVars, cntVars>>

\* the connection of the call is lost: recv() raises, send_gcode_and_wait
\* logs it and returns None
CallClosed ==
    /\ ws_call.st = "wait"
    /\ CallReturn("closed", None, NoneValue)
    /\ UNCHANGED <<gcode_queue, latest_values, message_queue,
                   initial_values, mentioned, overwritten,
                   coreVars, flagVars, taskVars, envVars, cntVars>>

NextCall == SerialReader \/ CallSend \/ CallRecv \/ CallClosed

SpecCall == InitMirror /\ [][NextCall]_vars

\* ------------------------------------------------- main.py as a whole
\* the commands of the TFT in this part: those passed on and M105, which
\* handle_gcode answers itself
BridgeGcodes == CallGcodes \cup { <<"M105">> }

\* the format {:.2f} of a whole number
Fixed2(n) == ToString(n) \o ".00"

\* TFTAdapter.get_temperature (main.py): TEMPERATURE_FORMAT filled from the
\* mirror
get_temperature(lv) ==
    "T:" \o Fixed2(lv["extruder"]["temperature"])
         \o " /" \o Fixed2(lv["extruder"]["target"])
         \o " B:" \o Fixed2(lv["heater_bed"]["temperature"])
         \o " /" \o Fixed2(lv["heater_bed"]["target"])
         \o " @:0 B@:0"

\* serial_reader puts a line into gcode_queue
BridgeReader ==
    /\ Len(gcode_queue) + Len(tft_out)
           + (IF ws_call.st = "idle" THEN 0 ELSE 1) < MaxBridge
    /\ \E gcode \in BridgeGcodes : gcode_queue' = Append(gcode_queue, gcode)
    /\ UNCHANGED <<ws_call, tft_out, ws_done, latest_values, message_queue,
                   initial_values, mentioned, overwritten,
                   coreVars, flagVars, taskVars, envVars, cntVars>>

\* process_gcode_queue takes an M105: handle_gcode renders the reply and
\* process_gcode_queue writes it
LocalReply ==
    /\ ws_call.st = "idle"
    /\ gcode_queue # <<>>
    /\ Head(gcode_queue) = <<"M105">>
    /\ gcode_queue' = Tail(gcode_queue)
    /\ tft_out' = write_call_response(tft_out, Head(gcode_queue),
                      Str(<<get_temperature(latest_values), "ok">>))
    /\ UNCHANGED <<ws_call, ws_done, latest_values, message_queue,
                   initial_values, mentioned, overwritten,
                   coreVars, flagVars, taskVars, envVars, cntVars>>

\* the deltas of this part: one field of one object, tracked or not
BridgeDeltas ==
    {d \in Deltas : /\ DOMAIN d \in {{"extruder"}, {"print_stats"}}
                    /\ \A o \in DOMAIN d : DOMAIN d[o] = {"target"}}

\* the subscription delivers one of them
BridgeStatus ==
    \E msg \in Messages :
        /\ msg.method = "notify_status_update"
        /\ msg.params \in BridgeDeltas
        /\ HandleMessage(msg)

NextBridge ==
    \/ BridgeStatus
    \/ OtherMessage
    \/ BridgeReader
    \/ LocalReply
    \/ CallSend
    \/ CallRecv
    \/ CallClosed

SpecBridge == InitMirror /\ [][NextBridge]_vars

\* ================================================================== claims
\* the calls that carry a script (run_gcode, do_restart)
ScriptCalls == {c \in 1..Len(calls) : calls[c].m # "emergency_stop"}

\* The scripts the handling of a line is to send to the backend: the line
\* itself for a standard or an unregistered gcode, what the handler of
\* direct_gcodes queues for the others.
ExpectedScripts(line) ==
    IF line = <<>> \/ HasM112(line) THEN <<>>
    ELSE IF Head(line) \in direct_gcodes \ standard_gcodes
    THEN LET s == call_handler([St EXCEPT !.queue = <<>>], Head(line),
                               Params(Parts(line)), 0)
         IN  [i \in 1..Len(s.queue) |-> s.queue[i].v]
    ELSE <<line>>

\* script number k of line number i has been sent before call number c
SentBefore(i, k, c) ==
    \E b \in ScriptCalls :
        b < c /\ calls[b].src = i /\ calls[b].script = ExpectedScripts(rx[i])[k]

\* C1: the scripts reach the backend in the order of the lines they stem from:
\* when a script of a line has been sent, every script of every line received
\* before it has been sent earlier.
C1_ScriptsInLineOrder ==
    \A c \in ScriptCalls :
        \A i \in 1..(calls[c].src - 1) :
            \A k \in 1..Len(ExpectedScripts(rx[i])) : SentBefore(i, k, c)

\* the lines the tables answer: a gcode of direct_gcodes or standard_gcodes
Answered(line) ==
    /\ line # <<>>
    /\ ~HasM112(line)
    /\ Head(line) \in direct_gcodes \cup standard_gcodes

\* C2: the replies are written in the order of the commands: when a reply to a
\* line has been written, every earlier line that gets a reply has got one
\* before it.
C2_RepliesInLineOrder ==
    \A r \in 1..Len(replies) :
        \A i \in 1..(replies[r].src - 1) :
            Answered(rx[i]) => \E q \in 1..(r - 1) : replies[q].src = i

\* the _process_queue runs there are: registered and not yet run, or awaiting
\* the backend
QueueRuns ==
    Len(SelectSeq(ready, LAMBDA cb : cb.cb = "_process_queue")) + Len(inflight)

RECURSIVE IsPrefix(_, _)
IsPrefix(s, t) ==
    s = <<>> \/ (t # <<>> /\ Head(s) = Head(t) /\ IsPrefix(Tail(s), Tail(t)))

Written_(r) == \E p \in 1..Len(port) : port[p][1] = r

\* C4: the ok that ends the handling of a line is written only when the call
\* for every script of the line has returned.
C4_OkAfterScripts ==
    \A r \in 1..Len(replies) :
        (replies[r].text = <<"ok">> /\ replies[r].src > 0 /\ Written_(r)) =>
            LET i == replies[r].src IN
            \A k \in 1..Len(ExpectedScripts(rx[i])) :
                \E c \in ScriptCalls :
                    /\ calls[c].src = i
                    /\ calls[c].script = ExpectedScripts(rx[i])[k]
                    /\ calls[c].st # "sent"

\* str is whole reply blocks one after the other, the last one perhaps cut
WholeBlocks(str) ==
    \A p \in 1..Len(str) :
        LET k == str[p][2] IN
        /\ k > 1 => p > 1 /\ str[p - 1] = <<str[p][1], k - 1>>
        /\ k = 1 /\ p > 1 => str[p - 1][2] = MsgLen
        /\ k < MsgLen /\ p < Len(str) => str[p + 1] = <<str[p][1], k + 1>>

\* C5: whatever the writers and however os.write splits the buffer, the bytes
\* the open port has taken, and those with the bytes still to write after
\* them, are whole messages one after the other: no byte of another message
\* stands between two bytes of a message.
C5_WholeMessages ==
    /\ WholeBlocks(port)
    /\ connected => WholeBlocks(port \o send_buffer)

\* os.write has taken a part of a message and _do_send sleeps, with the rest
\* of the message and another whole message behind it in the buffer
C5_Witness ==
    /\ send_sleeping > 0
    /\ port # <<>>
    /\ port[Len(port)][2] < MsgLen
    /\ Len(send_buffer) > MsgLen
    /\ send_buffer[Len(send_buffer)][1] # port[Len(port)][1]

\* the lines with M112 among those received
M112Lines == {i \in 1..Len(rx) : HasM112(rx[i])}

\* the emergency stops of line i: registered with the event loop, or called
Registered(i) == {p \in 1..Len(ready) : ready[p] = Cb("emergency_stop", i)}
Called(i) ==
    {c \in 1..Len(calls) : calls[c].m = "emergency_stop" /\ calls[c].src = i}

\* C6: a line with M112 never enters the queue and is never sent as a script:
\* process_line hands emergency_stop to the event loop at once, where it runs
\* once whatever the queue holds and whatever call is awaited.
C6_EstopBypassesQueue ==
    /\ \A i \in M112Lines : Cardinality(Registered(i)) + Cardinality(Called(i)) = 1
    /\ \A c \in 1..Len(calls) :
          IF calls[c].m = "emergency_stop"
          THEN calls[c].src \in M112Lines
          ELSE ~HasM112(calls[c].script) /\ calls[c].src \notin M112Lines
    /\ \A q \in 1..Len(queue) :
          /\ queue[q].src \notin M112Lines
          /\ queue[q].k = "str" => ~HasM112(queue[q].v)

\* emergency_stop has been called while a script call sent before it is
\* still awaited
C6_Witness ==
    \E c \in 1..Len(calls) :
        /\ calls[c].m = "emergency_stop"
        /\ \E b \in 1..(c - 1) : b \in ScriptCalls /\ calls[b].st = "sent"

\* nothing is left to run: no callback, no awaited call, no sleeping _do_send
Quiet == ready = <<>> /\ inflight = <<>> /\ send_sleeping = 0

\* C7: an M112 is answered by one Error:Emergency Stop and nothing else: when
\* nothing is left to run, there are as many such replies as lines with M112.
C7_EstopReply ==
    Quiet =>
        Cardinality({r \in 1..Len(replies) :
                        replies[r].text = <<"Error:", "Emergency Stop">>})
            = Cardinality(M112Lines)

\* C8: once the emergency stop of an M112 is called, nothing of the lines
\* received before it is awaited, sent or left in the queue.
C8_EstopCancels ==
    \A i \in M112Lines : \A e \in Called(i) :
        /\ \A p \in 1..Len(inflight) : calls[inflight[p]].src > i
        /\ \A c \in ScriptCalls : c > e => calls[c].src > i
        /\ \A q \in 1..Len(queue) : queue[q].src > i

\* C9: in the mirror every field of every object of the initial query has the
\* value of the last delta that mentioned it, or the value of the initial query
\* if no delta did; the objects are those of the initial query.
C9_MirrorMerge ==
    /\ DOMAIN latest_values = DOMAIN initial_values
    /\ \A o \in DOMAIN latest_values :
          /\ DOMAIN latest_values[o] = DOMAIN initial_values[o] \cup DOMAIN mentioned[o]
          /\ \A f \in DOMAIN latest_values[o] :
                latest_values[o][f] =
                    IF f \in DOMAIN mentioned[o] THEN mentioned[o][f]
                    ELSE initial_values[o][f]

\* deltas have come, one has changed a field an earlier one had set, a field
\* differs from the initial query and another was never mentioned
C9_Witness ==
    /\ overwritten
    /\ \E o \in Tracked : \E f \in Fields :
          f \in DOMAIN mentioned[o] /\ latest_values[o][f] # initial_values[o][f]
    /\ \E o \in Tracked : \E f \in Fields : f \notin DOMAIN mentioned[o]

\* a command has been taken in hand: answered, sent to the backend, or taken
\* off the queue
Processing ==
    \/ \E r \in 1..Len(replies) : replies[r].src > 0
    \/ ScriptCalls # {}
    \/ died["_process_queue"] > 0

\* C10: no command is taken in hand before the subscription of
\* _process_klippy_ready has filled printer_state.
C10_MirrorFirst == Processing => print_state # None

\* line i waits in the queue: as a script, a handler or a tuple
InQueue(i) == \E q \in 1..Len(queue) : queue[q].src = i

\* the handler of line i waits in the queue
HandlerWaits(i) ==
    \E q \in 1..Len(queue) : queue[q].src = i /\ queue[q].k # "str"

\* the scripts of line i, queued or sent
ScriptsOf(i) ==
    {queue[q].v : q \in {x \in 1..Len(queue) : queue[x].src = i /\ queue[x].k = "str"}}
    \cup {calls[c].script : c \in {x \in ScriptCalls : calls[x].src = i}}

\* the replies to line i
RepliesTo(i) == {r \in 1..Len(replies) : replies[r].src = i}

\* C11: when the handler of an M24 has run, in the print state it ran in: a
\* RESUME was queued only if the state was paused, a start only if it was
\* standby or cancelled and with a file name, and in any other state nothing
\* was queued and the TFT was sent an echo.
C11_StartPrintByState ==
    [][\A i \in 1..Len(rx) :
          (rx[i] = <<"M24">> /\ HandlerWaits(i) /\ ~HandlerWaits(i)') =>
              /\ <<"RESUME">> \in ScriptsOf(i)' => sd_state = "paused"
              /\ \A sc \in ScriptsOf(i)' :
                    Head(sc) = "SDCARD_PRINT_FILE" =>
                        sd_state \in {"standby", "cancelled"} /\ Len(sc) > 3
              /\ sd_state \notin {"paused", "standby", "cancelled"} =>
                    ScriptsOf(i)' = {} /\ RepliesTo(i)' # {}]_vars

RECURSIVE StripQuotes(_)
\* a file name without the quotes around it
StripQuotes(f) ==
    IF f = <<>> THEN f
    ELSE IF Head(f) = "\"" THEN StripQuotes(Tail(f))
    ELSE IF f[Len(f)] = "\"" THEN StripQuotes(SubSeq(f, 1, Len(f) - 1))
    ELSE f

\* the normalized file name: no quotes around it, no 0:/ and no gcodes folder
\* in front, one / at the start
Normalized(f) ==
    LET f0 == StripQuotes(f)
        f1 == IF f0 # <<>> /\ Head(f0) = "0:/" THEN Tail(f0) ELSE f0
        f2 == IF Len(f1) >= 2 /\ f1[1] = "gcodes" /\ f1[2] = "/" THEN Tail(f1)
              ELSE IF Len(f1) >= 3 /\ f1[1] = "/" /\ f1[2] = "gcodes" /\ f1[3] = "/"
              THEN Tail(Tail(f1))
              ELSE f1
    IN  IF f2 # <<>> /\ Head(f2) = "/" THEN f2 ELSE <<"/">> \o f2

\* the M23 lines whose handler has run
Selected == {i \in 1..Len(rx) : Head(rx[i]) = "M23" /\ ~HandlerWaits(i)}

\* the last of the lines of S before line j
LastBefore(S, j) ==
    CHOOSE i \in S : i < j /\ \A k \in S : k < j => k <= i

\* C12: the selected file is the normalized name of the last M23 handled, every
\* M23 handled has queued M23 <normalized name>, and the start an M24 queues
\* names the normalized name of the last M23 before it.
C12_SelectedFile ==
    /\ Selected # {} =>
          current_file = Normalized(Tail(rx[LastBefore(Selected, Len(rx) + 1)]))
    /\ \A i \in Selected : <<"M23">> \o Normalized(Tail(rx[i])) \in ScriptsOf(i)
    /\ \A j \in 1..Len(rx) : \A sc \in ScriptsOf(j) :
          Head(sc) = "SDCARD_PRINT_FILE" =>
              /\ \E i \in Selected : i < j
              /\ sc = <<"SDCARD_PRINT_FILE", "FILENAME=\"">>
                      \o Normalized(Tail(rx[LastBefore(Selected, j)])) \o <<"\"">>

\* the scripts sent and those waiting, in the order they are or will be sent
Pipeline ==
    [c \in 1..Len(SelectSeq(calls, LAMBDA x : x.m # "emergency_stop")) |->
        LET x == SelectSeq(calls, LAMBDA y : y.m # "emergency_stop")[c]
        IN  [src |-> x.src, script |-> x.script]]
    \o [q \in 1..Len(SelectSeq(queue, LAMBDA x : x.k = "str")) |->
        LET x == SelectSeq(queue, LAMBDA y : y.k = "str")[q]
        IN  [src |-> x.src, script |-> x.v]]

\* C13: when the handler of an M500 has been taken off the queue: in state
\* printing or paused the TFT has been sent Error:Not saved - Printing and no
\* script is queued; in any other state Z_OFFSET_APPLY_PROBE and SAVE_CONFIG
\* are in the line of scripts, one right after the other.
C13_SaveConfig ==
    [][\A i \in 1..Len(rx) :
          (rx[i] = <<"M500">> /\ HandlerWaits(i) /\ ~HandlerWaits(i)') =>
              IF sd_state \in {"printing", "paused"}
              THEN /\ ScriptsOf(i)' = {}
                   /\ \E r \in RepliesTo(i)' :
                         replies'[r].text = <<"Error:", "Not saved - Printing">>
              ELSE \E p \in 1..(Len(Pipeline') - 1) :
                      /\ Pipeline'[p] =
                            [src |-> i, script |-> <<"Z_OFFSET_APPLY_PROBE">>]
                      /\ Pipeline'[p + 1] =
                            [src |-> i, script |-> <<"SAVE_CONFIG">>]]_vars

\* nothing of line i is left to do: nothing of it waits in the queue or with
\* the event loop, and no call for it is awaited
Settled(i) ==
    /\ ~InQueue(i)
    /\ \A p \in 1..Len(inflight) : calls[inflight[p]].src # i
    /\ \A p \in 1..Len(ready) : ready[p].src # i

\* C14: with a backend that answers every call, every line received is settled
\* in the end: it does not stay in the queue or undispatched forever.
C14_EveryLineSettles ==
    \A i \in 1..MaxLines : (Len(rx) >= i) ~> Settled(i)

\* the calls of line i, emergency stops too
CallsOf(i) == {c \in 1..Len(calls) : calls[c].src = i}

\* the handling of line i has failed: the line is through and nothing has
\* come of it (an exception in process_line or in _process_queue), or the
\* backend has answered a call of it with an error
Failed(i) ==
    /\ Settled(i)
    /\ \/ CallsOf(i) = {} /\ RepliesTo(i) = {}
       \/ \E c \in CallsOf(i) : calls[c].st = "error"

\* C15: a line that fails does not stop those after it: when nothing is left
\* to run, no line received after a failed one still waits in the queue.
C15_FailureIsolated ==
    Quiet =>
        \A i \in 1..Len(rx) : \A j \in (i + 1)..Len(rx) :
            Failed(i) => ~InQueue(j)

\* C16: a call the backend answers with an error is reported to the TFT as a
\* line that begins with Error:, and the line of that call is never answered
\* with ok.
C16_BackendErrorLine ==
    \A c \in 1..Len(calls) :
        calls[c].st = "error" =>
            /\ \E r \in RepliesTo(calls[c].src) :
                   Head(replies[r].text) = "Error:"
            /\ \A r \in RepliesTo(calls[c].src) :
                   Head(replies[r].text) # "ok"

\* call c is awaited by _process_queue
InFlight(c) == \E p \in 1..Len(inflight) : inflight[p] = c

\* C17: a call the backend leaves unanswered does not block the queue for
\* ever: every call awaited is given up in the end, whether or not its response
\* arrives.
C17_CallDeadline ==
    \A c \in 1..MaxLines : InFlight(c) ~> ~InFlight(c)

\* the messages the TFT was sent for call number d of main.py
WrittenFor(d) == {w \in 1..Len(tft_out) : tft_out[w].call = d}

\* C18: a command whose call lost its connection is answered with exactly one
\* message, Error:Transport.
C18_TransportError ==
    \A d \in 1..Len(ws_done) :
        ws_done[d].how = "closed" =>
            /\ Cardinality(WrittenFor(d)) = 1
            /\ \A w \in WrittenFor(d) : tft_out[w].text = <<"Error:Transport">>

\* C19: a call returns the result of the response that carries its own id and
\* nothing else: no notification received while it waited is part of what it
\* returns.
C19_OwnResponseOnly ==
    \A d \in 1..Len(ws_done) :
        ws_done[d].how = "response" =>
            ws_done[d].returned = Str(<<ws_done[d].result>>)

\* the report of a kind is being sent periodically
Emits(kind) ==
    IF kind = "temperature"
    THEN temperature_report_task.alive
    ELSE /\ position_report_task.alive
         /\ position_report_task.template =
                IF kind = "position" THEN <<POSITION_TEMPLATE>>
                ELSE <<PRINT_STATUS_TEMPLATE>>

TemplateOf(kind) ==
    IF kind = "temperature" THEN <<"ok", TEMPERATURE_TEMPLATE>>
    ELSE IF kind = "position" THEN <<POSITION_TEMPLATE>>
    ELSE <<PRINT_STATUS_TEMPLATE>>

\* the reports of a kind among the messages rs, written by a report task
ReportsOf(kind, rs) ==
    {r \in 1..Len(rs) : rs[r].src = 0 /\ rs[r].text = TemplateOf(kind)}

\* the interval last set for the kind
LastSet(kind) ==
    IF channels[kind] = <<>> THEN -1 ELSE channels[kind][Len(channels[kind])]

GcodeOf(kind) ==
    IF kind = "temperature" THEN "M155"
    ELSE IF kind = "position" THEN "M154" ELSE "M27"

C22_ReportsKeepComing ==
    \A kind \in Kinds : LastSet(kind) > 0 => Emits(kind)

\* line i names a command that is in neither table and is not an M112
Unregistered(i) ==
    /\ rx[i] # <<>>
    /\ Head(rx[i]) \notin direct_gcodes \cup standard_gcodes
    /\ ~HasM112(rx[i])

\* C23: a line whose command is in no table is dropped: nothing of it is put
\* in the queue, no call is made for it and nothing is written for it.
C23_UnknownDropped ==
    \A i \in 1..Len(rx) :
        Unregistered(i) =>
            ~InQueue(i) /\ CallsOf(i) = {} /\ RepliesTo(i) = {}

RECURSIVE BitXor(_, _)
\* a ^ b
BitXor(a, b) ==
    IF a = 0 /\ b = 0 THEN 0
    ELSE ((a + b) % 2) + 2 * BitXor(a \div 2, b \div 2)

RECURSIVE XorAll(_)
XorAll(bytes) ==
    IF bytes = <<>> THEN 0 ELSE BitXor(Head(bytes), XorAll(Tail(bytes)))

\* the line ends in *<cc>
HasStar(line) == line # <<>> /\ line[Len(line)] \in DOMAIN StarWords

RECURSIVE BodyBytes(_)
\* the bytes of a line in front of its star, a blank between two words
BodyBytes(line) ==
    IF Len(line) = 1 THEN Ascii[StarWords[line[1]].word]
    ELSE Ascii[Head(line)] \o <<32>> \o BodyBytes(Tail(line))

\* the XOR of the bytes in front of the star is the number behind it, mod 256
ChecksumOk(line) ==
    XorAll(BodyBytes(line)) = StarWords[line[Len(line)]].cc % 256

\* something of line i was handed on: a queue entry or a call
Dispatched(i) == InQueue(i) \/ CallsOf(i) # {}

\* C24: with checksums enabled, a line ending in *<cc> is handed on only if
\* its checksum is right, and a line whose checksum is wrong is answered
\* Error:Invalid Checksum.
C24_ChecksumGate ==
    enable_checksum =>
        \A i \in 1..Len(rx) :
            HasStar(rx[i]) =>
                /\ Dispatched(i) => ChecksumOk(rx[i])
                /\ ~ChecksumOk(rx[i]) =>
                       \E r \in RepliesTo(i) :
                           replies[r].text = <<"Error:", "Invalid Checksum">>

\* every object and field of the mirror lv is in the mirror lw
Keeps(lv, lw) ==
    \A o \in DOMAIN lv :
        o \in DOMAIN lw /\ DOMAIN lv[o] \subseteq DOMAIN lw[o]

\* C25: a step that takes, passes on or answers a command of the TFT, or
\* that queues a notify_gcode_response, leaves the mirror as it is, and no
\* step takes an object or a field out of the mirror.
C25_MirrorFrame ==
    [][/\ (callVars' # callVars \/ message_queue' # message_queue)
            => latest_values' = latest_values
       /\ Keeps(latest_values, latest_values')]_vars

\* the mirror has been changed by a delta, a gcode response is queued, and
\* an M105 has been answered from the mirror as it is now
C25_Witness ==
    /\ latest_values # initial_values
    /\ message_queue # <<>>
    /\ \E w \in 1..Len(tft_out) :
          /\ tft_out[w].gcode = <<"M105">>
          /\ tft_out[w].text = <<get_temperature(latest_values), "ok">>

\* the command of line i
GcodeAt(i) == IF rx[i] = <<>> THEN None ELSE Head(rx[i])

C27_AckOnly ==
    \A i \in 1..Len(rx) :
        GcodeAt(i) \in {"M22", "M92", "T0"} =>
            /\ ScriptsOf(i) = {} /\ CallsOf(i) = {}
            /\ Settled(i) =>
                  /\ Cardinality(RepliesTo(i)) = 1
                  /\ \A r \in RepliesTo(i) : replies[r].text = <<"ok">>

\* line i carries an S parameter
HasS(i) == \E p \in 2..Len(rx[i]) :
               rx[i][p] \in DOMAIN NumArg /\ NumArg[rx[i][p]].key = "arg_s"

\* C28: once the handler of an M420 has run, a script of the line is queued
\* or sent to the backend if the line carries an S, whatever its value, and
\* otherwise nothing is queued or sent and the line is answered ok.
C28_BedLeveling ==
    \A i \in 1..Len(rx) :
        (GcodeAt(i) = "M420" /\ ~HandlerWaits(i)) =>
            IF HasS(i)
            THEN ScriptsOf(i) # {}
            ELSE /\ ScriptsOf(i) = {} /\ CallsOf(i) = {}
                 /\ \E r \in RepliesTo(i) : replies[r].text = <<"ok">>

\* line i asks for a report that is made from printer_state
LocalReport(i) ==
    \/ GcodeAt(i) \in {"M105", "M114", "M115", "M211", "M503", "M851"}
    \/ GcodeAt(i) \in {"M220", "M221"} /\ ~HasS(i)

FilamentScripts(i) ==
    _handle_filament(IF GcodeAt(i) = "M701" THEN 25 ELSE -25, 0, 0)

\* the calls made for line i, in the order they were made
SentOf(i) == SelectSeq(calls, LAMBDA c : c.src = i)

\* C30: the calls made for an M701 or an M702 are the four scripts in their
\* order, one after the other with no call of another line between two of
\* them and none made while the one before is awaited, and when the line is
\* through and nothing is left to run all four have been made.
C30_FilamentScripts ==
    \A i \in 1..Len(rx) :
        GcodeAt(i) \in {"M701", "M702"} =>
            /\ Len(SentOf(i)) <= 4
            /\ \A k \in 1..Len(SentOf(i)) :
                  /\ SentOf(i)[k].m = "run_gcode"
                  /\ SentOf(i)[k].script = FilamentScripts(i)[k]
            /\ \A a \in CallsOf(i), b \in CallsOf(i), c \in 1..Len(calls) :
                  (a < c /\ c < b) => calls[c].src = i
            /\ \A a \in CallsOf(i), b \in CallsOf(i) :
                  a < b => calls[a].st # "sent"
            /\ (Settled(i) /\ Quiet) => Len(SentOf(i)) = 4

\* the words of line i after its gcode
ArgsAt(i) == SubSeq(rx[i], 2, Len(rx[i]))

\* C31: the calls made for a G29 are BED_MESH_CLEAR and then BED_MESH_CALIBRATE
\* with the arguments of the line, and when the handler of the line has run
\* and nothing of the line is left in the queue or awaited both have been made.
C31_BedMeshCalibrate ==
    \A i \in 1..Len(rx) :
        GcodeAt(i) = "G29" =>
            LET want == << <<"BED_MESH_CLEAR">>,
                           <<"BED_MESH_CALIBRATE">> \o ArgsAt(i) >>
            IN  /\ Len(SentOf(i)) <= 2
                /\ \A k \in 1..Len(SentOf(i)) : SentOf(i)[k].script = want[k]
                /\ (~HandlerWaits(i) /\ Settled(i)) => Len(SentOf(i)) = 2

\* the file names in the scripts of line i
NamesOf(i) == {Tail(sc) : sc \in ScriptsOf(i)}

\* C32: when the handler of an M23 has run, the line has one script, and the
\* name in it is the name of the line without the quotes around it, without a
\* leading 0:/ and with a leading gcodes/ or /gcodes/ reduced to /; it begins
\* with one / and no second one, and _clean_filename leaves it as it is.
C32_CleanFilename ==
    \A i \in 1..Len(rx) :
        (GcodeAt(i) = "M23" /\ ~HandlerWaits(i)) =>
            /\ Cardinality(NamesOf(i)) = 1
            /\ \A n \in NamesOf(i) :
                  /\ n = Normalized(Tail(rx[i]))
                  /\ Head(n) = "/" /\ (Len(n) >= 2 => n[2] # "/")
                  /\ _clean_filename(n) = n

\* C33: gq_busy is true exactly when a run of _process_queue is registered or
\* awaits the backend, and whenever the queue holds a task there is such a run.
C33_QueueHasRunner ==
    /\ gq_busy <=> QueueRuns >= 1
    /\ queue # <<>> => QueueRuns >= 1

\* the _do_send runs there are: registered and not yet run, or asleep
DoSendRuns ==
    Len(SelectSeq(ready, LAMBDA cb : cb.cb = "_do_send")) + send_sleeping

\* C34: send_busy is true only while a run of _do_send is registered or
\* asleep, and while the link is connected and send_buffer holds bytes there
\* is such a run to write them.
C34_WriterAwake ==
    /\ send_busy => DoSendRuns >= 1
    /\ (connected /\ send_buffer # <<>>) => DoSendRuns >= 1

RECURSIVE JoinNL(_)
\* the lines, each with its newline, as one stream
JoinNL(lines) ==
    IF lines = <<>> THEN <<>>
    ELSE Head(lines) \o <<NL>> \o JoinNL(Tail(lines))

\* the stream as it stands: the lines handed to process_line, the tail kept,
\* and what is not read yet
Rejoined == JoinNL(rx) \o partial_input \o wire

\* C35: a read of any size leaves the stream as it is: the lines handed to
\* process_line so far, the unterminated tail and the bytes not read yet are,
\* one after the other, what they were before the read, so no splitting into
\* chunks changes the lines handed on, their order or their number.
C35_ChunkingInvisible ==
    [][Len(wire') < Len(wire) => Rejoined' = Rejoined]_vars

\* the print actions among the replies rs, in their order
PrintActions(rs) ==
    LET acts == SelectSeq(rs, LAMBDA r :
                    /\ Len(r.text) = 2 /\ r.text[1] = "//action:"
                    /\ r.text[2] \in {"print_start", "pause", "resume", "cancel"})
    IN  [k \in 1..Len(acts) |-> acts[k].text[2]]

\* the print actions due when the monitor finds the state now, having seen the
\* state last before
ActionsDue(last, now) ==
    IF now = last THEN <<>>
    ELSE IF now = "printing"
    THEN IF last = "paused" THEN <<"resume">> ELSE <<"print_start">>
    ELSE IF now = "paused" THEN <<"pause">>
    ELSE IF now = "cancelled" THEN <<"cancel">>
    ELSE <<>>

\* C36: a round of the print status monitor writes the action of the change
\* of state it finds (resume for paused to printing, print_start for any other
\* change to printing, pause and cancel for a change to paused and to
\* cancelled) and none when the state is the one it saw last, and no other
\* step writes such an action.
C36_MonitorActions ==
    [][PrintActions(replies') =
          PrintActions(replies)
          \o (IF ticks' # ticks
              THEN ActionsDue(last_printer_state,
                              IF print_state = None THEN "standby" ELSE print_state)
              ELSE <<>>)]_vars

\* C37: at most one print status monitor runs at any time.
C37_OneMonitor == monitors <= 1

\* C38: when the handler of an M27, M154 or M155 with an S parameter has run,
\* the line has been answered with one ok and nothing else.
C38_IntervalAck ==
    \A i \in 1..Len(rx) :
        (GcodeAt(i) \in {"M27", "M154", "M155"} /\ HasS(i) /\ ~HandlerWaits(i)) =>
            /\ Cardinality(RepliesTo(i)) = 1
            /\ \A r \in RepliesTo(i) : replies[r].text = <<"ok">>

\* C39: no run of _do_send starts with the file descriptor None: the assertion
\* at its start has never failed.
C39_DoSendAssert == died["_do_send"] = 0

\* the report loops of a field that run: the task it refers to, if alive, and
\* those left running
LoopsOf(task) ==
    (IF task.alive THEN <<[template |-> task.template, interval |-> task.interval]>>
     ELSE <<>>) \o task.others

====
